---------------------------- MODULE Spec2Model ----------------------------
(***************************************************************************)
(* A model of map_fetch.py: one run of generate_map, from reading the      *)
(* configuration file to writing the image.  The run is cut into steps at  *)
(* its external calls (file read, provider queries, draw calls, savefig),  *)
(* because each of them either returns or raises.                          *)
(***************************************************************************)
EXTENDS Integers, Sequences, FiniteSets, TLC

VARIABLES
    config,            \* the content of the configuration file (input)
    provider,          \* the data the geo provider holds for the region (input)
    pc,                \* position of the run inside generate_map
    config_data,       \* <<>> until json.load returned, then <<config>>
    half,              \* <<>> until computed, then <<half_width, half_height>>
    bbox,              \* <<>> until computed, then <<min_lon, max_lon, min_lat, max_lat>>
    queries,           \* provider queries issued so far, in order
    G,                 \* <<>> until fetched, then <<road segments>>
    water,             \* <<>> until fetched, then <<water layer>>
    metro_lines,       \* <<>> until fetched, then <<metro layer>>
    metro_colors,      \* the in-memory color table of plot_metro_lines
    road_idx,          \* index of the next road type of plot_roads
    metro_idx,         \* index of the next feature of plot_metro_lines
    poi_idx,           \* index of the next point of interest
    draws,             \* draw calls issued on the canvas, in order, with their outcome
    axes,              \* the axes' settings: created, limits, background, decorations
    log,               \* records written by logging.info / logging.error
    outputs,           \* files written by savefig
    raised             \* the unhandled exception that ended the run, or "none"

vars == <<config, provider, pc, config_data, half, bbox, queries, G, water,
          metro_lines, metro_colors, road_idx, metro_idx, poi_idx, draws, axes,
          log, outputs, raised>>

-----------------------------------------------------------------------------
(* Bounds of the model.                                                     *)

MaxRoadTypes == 2
MaxSegs == 2
MaxFeatures == 2
MaxPois == 2
\* Coordinates are floats: a sum is rounded to the nearest representable
\* value.  The model keeps coordinates on a grid of 1/Prec degree, which
\* stands for the spacing of doubles around the center coordinate.
Prec == 1000

(* Program constants.                                                       *)

KmPerDegree == 111
MetersPerKm == 1000
Dpi == 600

DefaultMetroColor == "#FEC8D8"
WaterColor == "#add8e6"
UnnamedLine == "Unnamed Line"

-----------------------------------------------------------------------------
(* Exact arithmetic on fractions [n |-> numerator, d |-> denominator > 0].  *)

Abs(x) == IF x < 0 THEN -x ELSE x

RECURSIVE GCD(_, _)
GCD(a, b) == IF b = 0 THEN a ELSE GCD(b, a % b)

Rat(n, d) ==
    LET s == IF d < 0 THEN -1 ELSE 1
        g == GCD(Abs(n), Abs(d))
    IN  [n |-> (s * n) \div g, d |-> (s * d) \div g]

RInt(k) == [n |-> k, d |-> 1]
RMul(a, b) == Rat(a.n * b.n, a.d * b.d)
RDiv(a, b) == Rat(a.n * b.d, a.d * b.n)
RNeg(a) == [n |-> -a.n, d |-> a.d]
RGeq(a, b) == a.n * b.d >= b.n * a.d
RIsZero(a) == a.n = 0

\* The grid value nearest to the fraction r (in units of 1/Prec degree).
RoundToGrid(r) == (2 * r.n * Prec + r.d) \div (2 * r.d)

\* current + delta in float arithmetic: the sum, rounded to the grid.
FloatAdd(current, delta) == current + RoundToGrid(delta)

\* A whole number of degrees as a grid value.
Degrees(k) == k * Prec

\* math.cos(math.radians(latitude)) for the latitudes of the model, to three
\* decimals.
CosDeg(latitude) ==
    LET a == Abs(latitude)
    IN  CASE a = 0  -> Rat(1, 1)
          [] a = 40 -> Rat(766, 1000)
          [] a = 60 -> Rat(1, 2)
          [] a = 89 -> Rat(17, 1000)

-----------------------------------------------------------------------------
(* Pure functions of map_fetch.py.                                          *)

\* Mutant of km_to_lat: the offset is subtracted.
km_to_lat_sub(km, current_lat) ==
    LET delta_lat == RDiv(km, RInt(KmPerDegree))
    IN  FloatAdd(current_lat, RNeg(delta_lat))

km_to_lat(km, current_lat) ==
    LET delta_lat == RDiv(km, RInt(KmPerDegree))
    IN  FloatAdd(current_lat, delta_lat)

km_to_lon(km, current_lon, latitude) ==
    LET delta_lon == RDiv(km, RMul(RInt(KmPerDegree), CosDeg(latitude)))
    IN  FloatAdd(current_lon, delta_lon)

\* Mutant of HalfExtents: the aspect ratio is applied to the wrong axis.
HalfExtentsSwapped(distance, aspect_ratio) ==
    LET km == RDiv(RInt(distance), RInt(MetersPerKm))
    IN  IF RGeq(aspect_ratio, RInt(1))
        THEN <<RDiv(km, RInt(2)), RDiv(RMul(km, aspect_ratio), RInt(2))>>
        ELSE <<RDiv(km, RInt(2)), RDiv(RDiv(km, aspect_ratio), RInt(2))>>

\* <<half_width, half_height>> in km; the caller rules out aspect_ratio = 0
\* in the second branch (a float division by zero raises).
HalfExtents(distance, aspect_ratio) ==
    LET km == RDiv(RInt(distance), RInt(MetersPerKm))
    IN  IF RGeq(aspect_ratio, RInt(1))
        THEN <<RDiv(RMul(km, aspect_ratio), RInt(2)), RDiv(km, RInt(2))>>
        ELSE <<RDiv(km, RInt(2)), RDiv(RDiv(km, aspect_ratio), RInt(2))>>

\* <<min_longitude, max_longitude, min_latitude, max_latitude>>.
BoundingBox(center_latitude, center_longitude, half_width, half_height) ==
    << km_to_lon(RNeg(half_width), Degrees(center_longitude), center_latitude),
       km_to_lon(half_width, Degrees(center_longitude), center_latitude),
       km_to_lat(RNeg(half_height), Degrees(center_latitude)),
       km_to_lat(half_height, Degrees(center_latitude)) >>

\* Mutant of IsRoadType: a list-valued attribute is compared like a string.
IsRoadTypeEqualOnly(road_type, x) == x = [list |-> FALSE, v |-> <<road_type>>]

\* The lambda of plot_roads; a highway attribute x is a string
\* ([list |-> FALSE, v |-> <<s>>]) or a list of strings ([list |-> TRUE, v |-> l]).
IsRoadType(road_type, x) ==
    IF x.list
    THEN \E i \in 1..Len(x.v) : x.v[i] = road_type
    ELSE road_type = x.v[1]

\* The indexes of the rows of roads kept by the filter of plot_roads.
RoadSubset(roads, road_type) ==
    {i \in 1..Len(roads) : IsRoadType(road_type, roads[i])}

\* dict.get(key, default) on a JSON object held as [keys, <fields>].
Get(obj, key, default) == IF key \in obj.keys THEN obj[key] ELSE default

-----------------------------------------------------------------------------
(* The inputs of a run: the configuration file and the provider's data.     *)

RequiredKeys == {"center_latitude", "center_longitude", "distance", "aspect_ratio"}
OptionalKeys == {"points_of_interest", "road_styles", "metro_colors", "title",
                 "font_settings"}
AllKeys == RequiredKeys \cup OptionalKeys

RoadTypes == {"residential", "primary", "unclassified"}
LineNames == {"M1", "M2"}
PoiKeys == {"coords", "icon", "name"}
\* The icon files that exist on disk.
IconFiles == {"icon.png"}

Range(s) == {s[i] : i \in 1..Len(s)}
SeqsUpTo(S, n) == UNION {[1..k -> S] : k \in 0..n}
NoDup(s) == \A i, j \in 1..Len(s) : i # j => s[i] # s[j]
EmptyTable == [name \in {} |-> ""]

Str(s) == [list |-> FALSE, v |-> <<s>>]
Lst(l) == [list |-> TRUE, v |-> l]
HighwayValues == {Str("residential"), Str("primary"),
                  Lst(<<"residential", "unclassified">>)}

Style(t) == [road_type |-> t, color |-> "#444444", width |-> 1]
Poi(keys, icon, coords) == [keys |-> keys, icon |-> icon, coords |-> coords, name |-> "poi"]
PoiKinds == { Poi(PoiKeys, "icon.png", <<40, -73>>),
              Poi(PoiKeys, "icon.png", <<41, -74>>),
              Poi(PoiKeys, "", <<40, -73>>),
              Poi(PoiKeys \ {"icon"}, "", <<40, -73>>),
              Poi(PoiKeys, "missing.png", <<40, -73>>) }

\* road_styles is a JSON object: its keys are distinct and keep their order.
RoadStyleSeqs == {[i \in 1..Len(s) |-> Style(s[i])] :
                     s \in {t \in SeqsUpTo(RoadTypes, MaxRoadTypes) : NoDup(t)}}
Graphs == SeqsUpTo(HighwayValues, MaxSegs) \ {<<>>}
MetroLayers == {[has_name |-> TRUE, names |-> s] : s \in SeqsUpTo(LineNames, MaxFeatures)}
               \cup {[has_name |-> FALSE, names |-> <<UnnamedLine>>]}
ColorTables == {EmptyTable, "M1" :> "red", "M1" :> "red" @@ "M2" :> DefaultMetroColor}
PoiSeqs == SeqsUpTo(PoiKinds, MaxPois)

Latitudes == {-60, 0, 40, 89}
Longitudes == {-73, 10}
Distances == {0, 1, 2000}
AspectRatios == {Rat(-1, 1), Rat(0, 1), Rat(1, 2), Rat(1, 1), Rat(3, 2)}
KeySets == {AllKeys} \cup {AllKeys \ {k} : k \in AllKeys} \cup {RequiredKeys}

BaseConfig ==
    [ keys |-> AllKeys,
      center_latitude |-> 40, center_longitude |-> -73,
      distance |-> 2000, aspect_ratio |-> Rat(3, 2),
      points_of_interest |-> << Poi(PoiKeys, "icon.png", <<40, -73>>),
                                Poi(PoiKeys, "", <<40, -73>>) >>,
      road_styles |-> <<Style("residential"), Style("primary")>>,
      metro_colors |-> "M1" :> "red",
      title |-> "", font_settings |-> EmptyTable ]

BaseProvider ==
    [ G |-> <<Str("residential"), Lst(<<"residential", "unclassified">>)>>,
      water |-> [empty |-> FALSE],
      metro |-> [has_name |-> TRUE, names |-> <<"M1", "M2">>] ]

\* The runs of the model: every value of one group of inputs, the other
\* inputs at their base value.
Inputs ==
    {<<[BaseConfig EXCEPT !.center_latitude = la, !.center_longitude = lo,
                          !.distance = di, !.aspect_ratio = ar], BaseProvider>> :
        la \in Latitudes, lo \in Longitudes, di \in Distances, ar \in AspectRatios}
    \cup {<<[BaseConfig EXCEPT !.keys = ks], BaseProvider>> : ks \in KeySets}
    \cup {<<[BaseConfig EXCEPT !.road_styles = rs], [BaseProvider EXCEPT !.G = g]>> :
             rs \in RoadStyleSeqs, g \in Graphs}
    \cup {<<BaseConfig, [BaseProvider EXCEPT !.water = [empty |-> e]]>> : e \in BOOLEAN}
    \cup {<<[BaseConfig EXCEPT !.metro_colors = ct], [BaseProvider EXCEPT !.metro = ml]>> :
             ct \in ColorTables, ml \in MetroLayers}
    \cup {<<[BaseConfig EXCEPT !.points_of_interest = ps], BaseProvider>> : ps \in PoiSeqs}

NoAxes == [created |-> FALSE, facecolor |-> "", xlim |-> <<>>, ylim |-> <<>>,
           axis_on |-> TRUE]

Init ==
    /\ \E in \in Inputs : config = in[1] /\ provider = in[2]
    /\ pc = "load_config"
    /\ config_data = <<>>
    /\ half = <<>>
    /\ bbox = <<>>
    /\ queries = <<>>
    /\ G = <<>>
    /\ water = <<>>
    /\ metro_lines = <<>>
    /\ metro_colors = EmptyTable
    /\ road_idx = 1
    /\ metro_idx = 1
    /\ poi_idx = 1
    /\ draws = <<>>
    /\ axes = NoAxes
    /\ log = <<>>
    /\ outputs = <<>>
    /\ raised = "none"

-----------------------------------------------------------------------------
(* Locals of generate_map that are read from config_data and never change.  *)

road_styles == Get(config_data[1], "road_styles", <<>>)
points_of_interest == Get(config_data[1], "points_of_interest", <<>>)
aspect_ratio == config_data[1].aspect_ratio

Info(msg, arg) == [level |-> "INFO", msg |-> msg, arg |-> arg]
Error(msg, arg) == [level |-> "ERROR", msg |-> msg, arg |-> arg]
Draw(layer, key, items, at, color, ok) ==
    [layer |-> layer, key |-> key, items |-> items, at |-> at, color |-> color,
     ok |-> ok]

\* An exception nothing catches: the run ends with a trace.
Fatal(exception) == pc' = "error" /\ raised' = exception

-----------------------------------------------------------------------------
(* generate_map, lines 155-169: read the configuration.                     *)

LoadConfig ==
    /\ pc = "load_config"
    /\ RequiredKeys \subseteq config.keys
    /\ config_data' = <<config>>
    /\ metro_colors' = Get(config, "metro_colors", EmptyTable)
    /\ log' = Append(log, Info("Generating map for center", ""))
    /\ pc' = "compute_bounds"
    /\ UNCHANGED <<config, provider, half, bbox, queries, G, water, metro_lines,
                   road_idx, metro_idx, poi_idx, draws, axes, outputs, raised>>

LoadConfigKeyError ==
    /\ pc = "load_config"
    /\ ~(RequiredKeys \subseteq config.keys)
    /\ config_data' = <<config>>
    /\ Fatal("KeyError")
    /\ UNCHANGED <<config, provider, half, bbox, queries, G, water, metro_lines,
                   metro_colors, road_idx, metro_idx, poi_idx, draws, axes, log,
                   outputs>>

(* generate_map, lines 170-180: half extents and bounding box.              *)

DividesByZero(c) == ~RGeq(c.aspect_ratio, RInt(1)) /\ RIsZero(c.aspect_ratio)

ComputeBounds ==
    /\ pc = "compute_bounds"
    /\ LET c == config_data[1]
           h == HalfExtents(c.distance, c.aspect_ratio)
       IN  /\ ~DividesByZero(c)
           /\ half' = h
           /\ bbox' = BoundingBox(c.center_latitude, c.center_longitude, h[1], h[2])
    /\ pc' = "fetch_network"
    /\ UNCHANGED <<config, provider, config_data, queries, G, water, metro_lines,
                   metro_colors, road_idx, metro_idx, poi_idx, draws, axes, log,
                   outputs, raised>>

ComputeBoundsZeroDivision ==
    /\ pc = "compute_bounds"
    /\ DividesByZero(config_data[1])
    /\ Fatal("ZeroDivisionError")
    /\ UNCHANGED <<config, provider, config_data, half, bbox, queries, G, water,
                   metro_lines, metro_colors, road_idx, metro_idx, poi_idx, draws,
                   axes, log, outputs>>

(* generate_map, lines 182-192: the three provider queries.  Each returns   *)
(* the provider's data or raises; nothing catches the exception.            *)

\* Mutant of FetchWaterRaises: the failed query is issued again.
FetchWaterRetries ==
    /\ pc = "fetch_water"
    /\ queries' = Append(queries, "water")
    /\ UNCHANGED <<config, provider, pc, config_data, half, bbox, G, water,
                   metro_lines, metro_colors, road_idx, metro_idx, poi_idx, draws,
                   axes, log, outputs, raised>>

FetchNetwork ==
    /\ pc = "fetch_network"
    /\ queries' = Append(queries, "network")
    /\ G' = <<provider.G>>
    /\ pc' = "fetch_water"
    /\ UNCHANGED <<config, provider, config_data, half, bbox, water, metro_lines,
                   metro_colors, road_idx, metro_idx, poi_idx, draws, axes, log,
                   outputs, raised>>

FetchNetworkRaises ==
    /\ pc = "fetch_network"
    /\ queries' = Append(queries, "network")
    /\ Fatal("FetchError")
    /\ UNCHANGED <<config, provider, config_data, half, bbox, G, water, metro_lines,
                   metro_colors, road_idx, metro_idx, poi_idx, draws, axes, log,
                   outputs>>

FetchWater ==
    /\ pc = "fetch_water"
    /\ queries' = Append(queries, "water")
    /\ water' = <<provider.water>>
    /\ pc' = "fetch_subway"
    /\ UNCHANGED <<config, provider, config_data, half, bbox, G, metro_lines,
                   metro_colors, road_idx, metro_idx, poi_idx, draws, axes, log,
                   outputs, raised>>

FetchWaterRaises ==
    /\ pc = "fetch_water"
    /\ queries' = Append(queries, "water")
    /\ Fatal("FetchError")
    /\ UNCHANGED <<config, provider, config_data, half, bbox, G, water, metro_lines,
                   metro_colors, road_idx, metro_idx, poi_idx, draws, axes, log,
                   outputs>>

FetchSubway ==
    /\ pc = "fetch_subway"
    /\ queries' = Append(queries, "subway")
    /\ metro_lines' = <<provider.metro>>
    /\ pc' = "subplots"
    /\ UNCHANGED <<config, provider, config_data, half, bbox, G, water,
                   metro_colors, road_idx, metro_idx, poi_idx, draws, axes, log,
                   outputs, raised>>

FetchSubwayRaises ==
    /\ pc = "fetch_subway"
    /\ queries' = Append(queries, "subway")
    /\ Fatal("FetchError")
    /\ UNCHANGED <<config, provider, config_data, half, bbox, G, water, metro_lines,
                   metro_colors, road_idx, metro_idx, poi_idx, draws, axes, log,
                   outputs>>

(* generate_map, line 194: the canvas.  figsize is (10 * aspect_ratio,      *)
(* 10 / aspect_ratio); a negative size is refused by some versions of the   *)
(* plotting library and accepted by others.                                 *)

Subplots ==
    /\ pc = "subplots"
    /\ axes' = [axes EXCEPT !.created = TRUE]
    /\ pc' = "plot_roads"
    /\ UNCHANGED <<config, provider, config_data, half, bbox, queries, G, water,
                   metro_lines, metro_colors, road_idx, metro_idx, poi_idx, draws,
                   log, outputs, raised>>

SubplotsRaises ==
    /\ pc = "subplots"
    /\ aspect_ratio.n < 0
    /\ Fatal("ValueError")
    /\ UNCHANGED <<config, provider, config_data, half, bbox, queries, G, water,
                   metro_lines, metro_colors, road_idx, metro_idx, poi_idx, draws,
                   axes, log, outputs>>

-----------------------------------------------------------------------------
(* plot_roads, lines 56-66: one iteration per configured road type.  The    *)
(* draw call returns or raises; the except clause logs and the loop goes on.*)

\* Mutant of PlotRoadTypeRaises: no except clause around the draw call.
PlotRoadTypeUncaught ==
    /\ pc = "plot_roads"
    /\ road_idx <= Len(road_styles)
    /\ LET style == road_styles[road_idx]
       IN  draws' = Append(draws, Draw("roads", style.road_type,
                                       RoadSubset(G[1], style.road_type), <<>>,
                                       style.color, FALSE))
    /\ Fatal("DrawError")
    /\ UNCHANGED <<config, provider, config_data, half, bbox, queries, G, water,
                   metro_lines, metro_colors, road_idx, metro_idx, poi_idx, axes,
                   log, outputs>>

PlotRoadType ==
    /\ pc = "plot_roads"
    /\ road_idx <= Len(road_styles)
    /\ LET style == road_styles[road_idx]
       IN  draws' = Append(draws, Draw("roads", style.road_type,
                                       RoadSubset(G[1], style.road_type), <<>>,
                                       style.color, TRUE))
    /\ road_idx' = road_idx + 1
    /\ UNCHANGED <<config, provider, pc, config_data, half, bbox, queries, G, water,
                   metro_lines, metro_colors, metro_idx, poi_idx, axes, log,
                   outputs, raised>>

PlotRoadTypeRaises ==
    /\ pc = "plot_roads"
    /\ road_idx <= Len(road_styles)
    /\ LET style == road_styles[road_idx]
       IN  /\ draws' = Append(draws, Draw("roads", style.road_type,
                                          RoadSubset(G[1], style.road_type), <<>>,
                                          style.color, FALSE))
           /\ log' = Append(log, Error("Error plotting roads", style.road_type))
    /\ road_idx' = road_idx + 1
    /\ UNCHANGED <<config, provider, pc, config_data, half, bbox, queries, G, water,
                   metro_lines, metro_colors, metro_idx, poi_idx, axes, outputs,
                   raised>>

PlotRoadsReturn ==
    /\ pc = "plot_roads"
    /\ road_idx > Len(road_styles)
    /\ pc' = "plot_water"
    /\ UNCHANGED <<config, provider, config_data, half, bbox, queries, G, water,
                   metro_lines, metro_colors, road_idx, metro_idx, poi_idx, draws,
                   axes, log, outputs, raised>>

(* plot_water_bodies, line 89: the layer is plotted whatever it holds.      *)
(* Plotting an empty layer draws nothing, or raises, depending on the       *)
(* version of the plotting library; nothing catches the exception.          *)

WaterItems == IF water[1].empty THEN {} ELSE {1}

PlotWater ==
    /\ pc = "plot_water"
    /\ draws' = Append(draws, Draw("water", "water", WaterItems, <<>>, WaterColor, TRUE))
    /\ pc' = "plot_metro"
    /\ UNCHANGED <<config, provider, config_data, half, bbox, queries, G, water,
                   metro_lines, metro_colors, road_idx, metro_idx, poi_idx, axes,
                   log, outputs, raised>>

PlotWaterRaises ==
    /\ pc = "plot_water"
    /\ water[1].empty
    /\ draws' = Append(draws, Draw("water", "water", WaterItems, <<>>, WaterColor, FALSE))
    /\ Fatal("DrawError")
    /\ UNCHANGED <<config, provider, config_data, half, bbox, queries, G, water,
                   metro_lines, metro_colors, road_idx, metro_idx, poi_idx, axes,
                   log, outputs>>

(* plot_metro_lines, lines 101-110: one iteration per feature.              *)

\* metro.get('name', 'Unnamed Line') of row i.
LineName(layer, i) == IF layer.has_name THEN layer.names[i] ELSE UnnamedLine

\* Mutant of ResolveColor: the default color is not recorded in the table.
ResolveColorForgets(table, line_name) == table

\* Mutant of ResolveColor: the default color is assigned to every line.
ResolveColorOverwrites(table, line_name) ==
    [n \in DOMAIN table \cup {line_name} |-> DefaultMetroColor]

\* Lines 103-105: the table after the lookup of line_name.
ResolveColor(table, line_name) ==
    IF line_name \notin DOMAIN table
    THEN (line_name :> DefaultMetroColor) @@ table
    ELSE table

\* Lines 103-104: the record logged for a name that is not in the table.
UnknownLog(line_name) ==
    IF line_name \notin DOMAIN metro_colors
    THEN <<Info("Unknown metro line", line_name)>>
    ELSE <<>>

\* The rows selected by metro_lines['name'] == line_name.
LineRows(layer, line_name) ==
    {j \in 1..Len(layer.names) : layer.names[j] = line_name}

\* The draw call returns.  It cannot when the layer has no name column or
\* the table has no color for the line: the lookup raises inside the try.
PlotMetroLine ==
    /\ pc = "plot_metro"
    /\ metro_idx <= Len(metro_lines[1].names)
    /\ LET layer == metro_lines[1]
           line_name == LineName(layer, metro_idx)
           table == ResolveColor(metro_colors, line_name)
       IN  /\ layer.has_name
           /\ line_name \in DOMAIN table
           /\ metro_colors' = table
           /\ log' = log \o UnknownLog(line_name)
           /\ draws' = Append(draws, Draw("metro", line_name, LineRows(layer, line_name),
                                          <<>>, table[line_name], TRUE))
    /\ metro_idx' = metro_idx + 1
    /\ UNCHANGED <<config, provider, pc, config_data, half, bbox, queries, G, water,
                   metro_lines, road_idx, poi_idx, axes, outputs, raised>>

PlotMetroLineRaises ==
    /\ pc = "plot_metro"
    /\ metro_idx <= Len(metro_lines[1].names)
    /\ LET layer == metro_lines[1]
           line_name == LineName(layer, metro_idx)
           table == ResolveColor(metro_colors, line_name)
       IN  /\ metro_colors' = table
           /\ log' = (log \o UnknownLog(line_name))
                        \o <<Error("Error plotting metro line", line_name)>>
           /\ draws' = Append(draws,
                  Draw("metro", line_name,
                       IF layer.has_name THEN LineRows(layer, line_name) ELSE {}, <<>>,
                       IF line_name \in DOMAIN table THEN table[line_name] ELSE "",
                       FALSE))
    /\ metro_idx' = metro_idx + 1
    /\ UNCHANGED <<config, provider, pc, config_data, half, bbox, queries, G, water,
                   metro_lines, road_idx, poi_idx, axes, outputs, raised>>

PlotMetroLinesReturn ==
    /\ pc = "plot_metro"
    /\ metro_idx > Len(metro_lines[1].names)
    /\ pc' = "plot_pois"
    /\ UNCHANGED <<config, provider, config_data, half, bbox, queries, G, water,
                   metro_lines, metro_colors, road_idx, metro_idx, poi_idx, draws,
                   axes, log, outputs, raised>>

-----------------------------------------------------------------------------
(* generate_map, lines 200-207, and add_building_icon, lines 130-134: one   *)
(* iteration per point of interest.                                         *)

\* The subscripts poi['coords'], poi['icon'] and poi['name'] succeed, and the
\* icon, when its path is not empty, is opened and added to the canvas.
PlotPoi ==
    /\ pc = "plot_pois"
    /\ poi_idx <= Len(points_of_interest)
    /\ LET poi == points_of_interest[poi_idx]
       IN  /\ PoiKeys \subseteq poi.keys
           /\ poi.icon # "" => poi.icon \in IconFiles
           /\ draws' = IF poi.icon # ""
                       THEN Append(draws, Draw("icons", poi.icon, {}, poi.coords,
                                               "", TRUE))
                       ELSE draws
    /\ poi_idx' = poi_idx + 1
    /\ UNCHANGED <<config, provider, pc, config_data, half, bbox, queries, G, water,
                   metro_lines, metro_colors, road_idx, metro_idx, axes, log,
                   outputs, raised>>

\* A point of interest without one of the three keys: the subscript raises.
PlotPoiKeyError ==
    /\ pc = "plot_pois"
    /\ poi_idx <= Len(points_of_interest)
    /\ ~(PoiKeys \subseteq points_of_interest[poi_idx].keys)
    /\ Fatal("KeyError")
    /\ UNCHANGED <<config, provider, config_data, half, bbox, queries, G, water,
                   metro_lines, metro_colors, road_idx, metro_idx, poi_idx, draws,
                   axes, log, outputs>>

\* Image.open on a path that names no file raises.
PlotPoiOpenRaises ==
    /\ pc = "plot_pois"
    /\ poi_idx <= Len(points_of_interest)
    /\ LET poi == points_of_interest[poi_idx]
       IN  /\ PoiKeys \subseteq poi.keys
           /\ poi.icon # ""
           /\ poi.icon \notin IconFiles
    /\ Fatal("FileNotFoundError")
    /\ UNCHANGED <<config, provider, config_data, half, bbox, queries, G, water,
                   metro_lines, metro_colors, road_idx, metro_idx, poi_idx, draws,
                   axes, log, outputs>>

PlotPoisReturn ==
    /\ pc = "plot_pois"
    /\ poi_idx > Len(points_of_interest)
    /\ pc' = "finalize"
    /\ UNCHANGED <<config, provider, config_data, half, bbox, queries, G, water,
                   metro_lines, metro_colors, road_idx, metro_idx, poi_idx, draws,
                   axes, log, outputs, raised>>

(* generate_map, lines 209-212: background, limits, axis decorations.       *)

\* Mutant of Finalize: the image is written without the limits being set.
FinalizeSkipped ==
    /\ pc = "finalize"
    /\ pc' = "savefig"
    /\ UNCHANGED <<config, provider, config_data, half, bbox, queries, G, water,
                   metro_lines, metro_colors, road_idx, metro_idx, poi_idx, draws,
                   axes, log, outputs, raised>>

Finalize ==
    /\ pc = "finalize"
    /\ axes' = [axes EXCEPT !.facecolor = "white",
                            !.xlim = <<bbox[1], bbox[2]>>,
                            !.ylim = <<bbox[3], bbox[4]>>,
                            !.axis_on = FALSE]
    /\ pc' = "savefig"
    /\ UNCHANGED <<config, provider, config_data, half, bbox, queries, G, water,
                   metro_lines, metro_colors, road_idx, metro_idx, poi_idx, draws,
                   log, outputs, raised>>

(* generate_map, line 215: write the image, or fail to (an invalid path).   *)

Savefig ==
    /\ pc = "savefig"
    /\ outputs' = Append(outputs, [dpi |-> Dpi, bbox_inches |-> "tight"])
    /\ pc' = "done"
    /\ UNCHANGED <<config, provider, config_data, half, bbox, queries, G, water,
                   metro_lines, metro_colors, road_idx, metro_idx, poi_idx, draws,
                   axes, log, raised>>

SavefigRaises ==
    /\ pc = "savefig"
    /\ Fatal("OSError")
    /\ UNCHANGED <<config, provider, config_data, half, bbox, queries, G, water,
                   metro_lines, metro_colors, road_idx, metro_idx, poi_idx, draws,
                   axes, log, outputs>>

-----------------------------------------------------------------------------

Next ==
    \/ LoadConfig
    \/ LoadConfigKeyError
    \/ ComputeBounds
    \/ ComputeBoundsZeroDivision
    \/ FetchNetwork
    \/ FetchNetworkRaises
    \/ FetchWater
    \/ FetchWaterRaises
    \/ FetchSubway
    \/ FetchSubwayRaises
    \/ Subplots
    \/ SubplotsRaises
    \/ PlotRoadType
    \/ PlotRoadTypeRaises
    \/ PlotRoadsReturn
    \/ PlotWater
    \/ PlotWaterRaises
    \/ PlotMetroLine
    \/ PlotMetroLineRaises
    \/ PlotMetroLinesReturn
    \/ PlotPoi
    \/ PlotPoiKeyError
    \/ PlotPoiOpenRaises
    \/ PlotPoisReturn
    \/ Finalize
    \/ Savefig
    \/ SavefigRaises

Spec == Init /\ [][Next]_vars

-----------------------------------------------------------------------------
(* Properties.                                                              *)

Last(s) == s[Len(s)]
DrawsOf(layer) == {i \in 1..Len(draws) : draws[i].layer = layer}
Rank(layer) == CASE layer = "roads" -> 1 [] layer = "water" -> 2
                 [] layer = "metro" -> 3 [] layer = "icons" -> 4

\* A draw call of plot_roads or plot_metro_lines raised in this step.
LayerDrawRaised ==
    /\ Len(draws') = Len(draws) + 1
    /\ ~Last(draws').ok
    /\ Last(draws').layer \in {"roads", "metro"}

\* C1: when the draw call of one road type or of one metro line raises, the
\* run goes on: it stays in the same loop at the next element, no exception
\* ends it; and a run that ends normally has issued the draw call of every
\* road type, of the water layer and of every metro feature, has gone
\* through every point of interest and has written the image, whatever
\* draw calls failed on the way.
C1_BestEffort ==
    /\ [][LayerDrawRaised =>
             /\ pc' = pc
             /\ raised' = "none"
             /\ \/ pc = "plot_roads" /\ road_idx' = road_idx + 1
                \/ pc = "plot_metro" /\ metro_idx' = metro_idx + 1]_vars
    /\ [](pc = "done" =>
             /\ Cardinality(DrawsOf("roads")) = Len(road_styles)
             /\ Cardinality(DrawsOf("water")) = 1
             /\ Cardinality(DrawsOf("metro")) = Len(metro_lines[1].names)
             /\ poi_idx = Len(points_of_interest) + 1
             /\ Len(outputs) = 1)

\* A finished run in which the first road type and a metro line failed to
\* draw, later layers were drawn and the image was written.
C1_Witness ==
    /\ pc = "done"
    /\ Len(outputs) = 1
    /\ \E i, j, k, l \in 1..Len(draws) :
          /\ i < j /\ j < k /\ k < l
          /\ draws[i].layer = "roads" /\ ~draws[i].ok
          /\ draws[j].layer = "roads" /\ draws[j].ok
          /\ draws[k].layer = "metro" /\ ~draws[k].ok
          /\ draws[l].layer = "icons" /\ draws[l].ok

\* C2: an empty water layer gets no draw call and raises no error; a water
\* layer that is not empty is drawn once.  (Stated as the claim has it; the
\* code plots the layer unconditionally.)
C2_EmptyWaterSkipped ==
    Len(water) = 1 =>
        IF water[1].empty
        THEN DrawsOf("water") = {} /\ raised # "DrawError"
        ELSE /\ Cardinality(DrawsOf("water")) <= 1
             /\ pc \in {"plot_metro", "plot_pois", "finalize", "savefig", "done"}
                   => Cardinality(DrawsOf("water")) = 1

\* The color table plot_metro_lines is entered with.
EntryColors == Get(config, "metro_colors", EmptyTable)

\* The line names of the features processed so far.
Encountered == {LineName(metro_lines[1], i) : i \in 1..(metro_idx - 1)}

UnknownRecords(line_name) ==
    {i \in 1..Len(log) : log[i] = Info("Unknown metro line", line_name)}

\* C3: every line name met so far that was no key of metro_colors on entry
\* is now a key, mapped to the default pink, and was reported as unknown
\* exactly once, however many features carry it.  This holds after each
\* feature, so also once all features are processed.
C3_UnknownLines ==
    Len(metro_lines) = 1 =>
        \A line_name \in Encountered \ DOMAIN EntryColors :
            /\ line_name \in DOMAIN metro_colors
            /\ metro_colors[line_name] = DefaultMetroColor
            /\ Cardinality(UnknownRecords(line_name)) = 1

\* All features processed, two of them carrying the same unknown name.
C3_Witness ==
    /\ pc = "done"
    /\ \E i, j \in 1..Len(metro_lines[1].names) :
          /\ i < j
          /\ metro_lines[1].has_name
          /\ metro_lines[1].names[i] = metro_lines[1].names[j]
          /\ metro_lines[1].names[i] \notin DOMAIN EntryColors

\* C10: once the configuration is read, a step never removes a key of
\* metro_colors nor changes the color of a key; the keys a step adds are
\* added by plot_metro_lines and map to the default pink, also when the draw
\* call of the feature fails.
C10_ColorTableFrame ==
    [][Len(config_data) = 1 =>
          /\ \A k \in DOMAIN metro_colors :
                k \in DOMAIN metro_colors' /\ metro_colors'[k] = metro_colors[k]
          /\ \A k \in DOMAIN metro_colors' \ DOMAIN metro_colors :
                pc = "plot_metro" /\ metro_colors'[k] = DefaultMetroColor]_vars

\* All features processed, one draw call failed, a name was added and the
\* configured line kept its color.
C10_Witness ==
    /\ pc = "done"
    /\ \E i \in DrawsOf("metro") : ~draws[i].ok
    /\ "M1" \in Encountered
    /\ "M1" \in DOMAIN EntryColors
    /\ metro_colors["M1"] = "red"
    /\ DOMAIN metro_colors # DOMAIN EntryColors

\* The rows a road type selects, by the words of the claim: the attribute
\* is that string, or is a list with that string among its elements.
Selected(roads, road_type) ==
    {i \in 1..Len(roads) :
        \/ ~roads[i].list /\ roads[i].v = <<road_type>>
        \/ roads[i].list /\ road_type \in Range(roads[i].v)}

\* C6: the subset each road type is drawn with holds exactly the segments
\* whose highway attribute equals the type or is a list containing it; a
\* segment tagged ["residential", "unclassified"] is in the subset of
\* "residential".
C6_RoadFilter ==
    \A i \in DrawsOf("roads") :
        /\ draws[i].items = Selected(G[1], draws[i].key)
        /\ draws[i].key = "residential" =>
              \A r \in 1..Len(G[1]) :
                  G[1][r] = Lst(<<"residential", "unclassified">>) => r \in draws[i].items

\* "unclassified" was drawn with a list-tagged segment in its subset and a
\* string-tagged segment left out.
C6_Witness ==
    \E i \in DrawsOf("roads") :
        /\ draws[i].key = "unclassified"
        /\ \E r \in draws[i].items : G[1][r] = Lst(<<"residential", "unclassified">>)
        /\ \E r \in 1..Len(G[1]) : r \notin draws[i].items /\ ~G[1][r].list

\* C7: no query is ever issued twice; and when a provider query raised, the
\* run has ended in the error state, nothing has been drawn or written, and
\* no step follows.
C7_FetchFatal ==
    /\ NoDup(queries)
    /\ raised = "FetchError" =>
          /\ pc = "error"
          /\ draws = <<>>
          /\ ~axes.created
          /\ outputs = <<>>
          /\ ~ENABLED Next

\* The third query raised after the first two returned.
C7_Witness ==
    /\ raised = "FetchError"
    /\ queries = <<"network", "water", "subway">>
    /\ Len(G) = 1 /\ Len(water) = 1 /\ Len(metro_lines) = 0

AllQueries == <<"network", "water", "subway">>

\* C9: the stages of a run follow one another.  Queries are issued in the
\* order network, water, subway, and only once the configuration is read
\* and the bounding box computed; a draw call is issued only once the three
\* queries returned; draw calls come in the order roads, water, metro,
\* icons; the limits are set, to the bounding box, only once every layer
\* is through; the image is written at most once, after the limits are set,
\* and a finished run has written it.
C9_StageOrder ==
    /\ queries = SubSeq(AllQueries, 1, Len(queries))
    /\ queries # <<>> => Len(config_data) = 1 /\ bbox # <<>>
    /\ draws # <<>> =>
          /\ queries = AllQueries
          /\ Len(G) = 1 /\ Len(water) = 1 /\ Len(metro_lines) = 1
          /\ axes.created
    /\ \A i, j \in 1..Len(draws) :
          i < j => Rank(draws[i].layer) <= Rank(draws[j].layer)
    /\ axes.xlim # <<>> =>
          /\ axes.xlim = <<bbox[1], bbox[2]>> /\ axes.ylim = <<bbox[3], bbox[4]>>
          /\ road_idx = Len(road_styles) + 1
          /\ Cardinality(DrawsOf("water")) = 1
          /\ metro_idx = Len(metro_lines[1].names) + 1
          /\ poi_idx = Len(points_of_interest) + 1
          /\ pc \in {"savefig", "done", "error"}
    /\ Len(outputs) <= 1
    /\ outputs # <<>> => pc = "done" /\ axes.xlim # <<>>
    /\ pc = "done" => Len(outputs) = 1

\* A finished run that issued a draw call on each of the four layers.
C9_Witness ==
    /\ pc = "done"
    /\ \A layer \in {"roads", "water", "metro", "icons"} : DrawsOf(layer) # {}

\* C4: with aspect_ratio >= 1, half_width = (distance/1000)*aspect_ratio/2
\* and half_height = (distance/1000)/2; with aspect_ratio < 1, half_width =
\* (distance/1000)/2 and half_height = (distance/1000)/aspect_ratio/2.
\* (Stated on the fractions, cross-multiplied.)
C4_HalfExtents ==
    half # <<>> =>
        LET distance == config_data[1].distance
            ar == config_data[1].aspect_ratio
            half_width == half[1]
            half_height == half[2]
        IN  IF ar.n >= ar.d
            THEN /\ half_width.n * (2 * MetersPerKm * ar.d) = half_width.d * (distance * ar.n)
                 /\ half_height.n * (2 * MetersPerKm) = half_height.d * distance
            ELSE /\ half_width.n * (2 * MetersPerKm) = half_width.d * distance
                 /\ half_height.n * (2 * MetersPerKm * ar.n) = half_height.d * (distance * ar.d)

\* distance 2000, aspect ratio 1.5: half_width 1.5 km, half_height 1 km.
C4_Witness ==
    /\ half = <<Rat(3, 2), Rat(1, 1)>>
    /\ config_data[1].distance = 2000
    /\ config_data[1].aspect_ratio = Rat(3, 2)

WellFormed(c) ==
    /\ c.distance > 0
    /\ c.aspect_ratio.n > 0
    /\ c.center_latitude > -90 /\ c.center_latitude < 90

LatOffsetResolved == half[2].n * Prec >= KmPerDegree * half[2].d
LonOffsetResolved ==
    LET cos == CosDeg(config_data[1].center_latitude)
    IN  half[1].n * cos.d * Prec >= KmPerDegree * cos.n * half[1].d

HasIconPath(poi) == "icon" \in poi.keys /\ poi.icon # ""

IconDraws == SelectSeq(draws, LAMBDA d : d.layer = "icons")
PoisWithIcon == SelectSeq(points_of_interest, HasIconPath)

\* C8, as claimed: a finished run has placed one icon per point of interest
\* that has an icon path, at its coords, and none for the others; and the
\* step that meets a point of interest lacking an icon path adds nothing to
\* the canvas, raises nothing and moves on to the next one.
C8_IconOverlay ==
    /\ [](pc = "done" =>
             /\ Len(IconDraws) = Len(PoisWithIcon)
             /\ \A i \in 1..Len(IconDraws) :
                   /\ IconDraws[i].at = PoisWithIcon[i].coords
                   /\ IconDraws[i].key = PoisWithIcon[i].icon)
    /\ [][(/\ pc = "plot_pois"
           /\ poi_idx <= Len(points_of_interest)
           /\ ~HasIconPath(points_of_interest[poi_idx])) =>
             /\ draws' = draws
             /\ raised' = "none"
             /\ poi_idx' = poi_idx + 1]_vars

=============================================================================
